---- MODULE Spec2Model ----
(***************************************************************************)
(* The motion-preview client of src/unnamed/part_000: the App component    *)
(* (upload session, run pipeline, object-URL lifecycle) and the            *)
(* HandSkeleton frame player.                                              *)
(*                                                                         *)
(* React state is the state of the last committed render.  An event        *)
(* handler, or the part of handleSubmit between two awaits, is one action: *)
(* its batched setState calls, the render they cause and the effect        *)
(* cleanup that render triggers.  A remote call is in flight between the   *)
(* action that issues it and the action in which its promise settles.      *)
(***************************************************************************)
EXTENDS Integers, Sequences, FiniteSets, TLC

\* Bounds of the model.
MaxUploads == 2
MaxSubmits == 2
MaxFrames == 2
MaxRenders == 3
MaxMoved == 2
Spread == 4

\* A nullable JavaScript value: None is null/undefined, Some(v) a value.
None == <<>>
Some(v) == <<v>>
IsSet(o) == o # None

Files == {"a.mp4", "b.mp4"}
MaxHandles == MaxUploads + MaxSubmits
Handles == 1..MaxHandles
FrameCounts == {0, MaxFrames}

EmptyInputMessage == "Please select a video file first."
NetworkErrorMessage == "Network Error"
StatusErrorMessage == "Request failed with status code 500"

VARIABLES
  mounted,    \* the App component is mounted
  file,       \* useState: the selected File
  status,     \* useState: "idle" | "processing" | "ready" | "error"
  error,      \* useState: the error message
  run,        \* useState: the body of the POST /process response
  keypoints,  \* useState: the body of the keypoints response
  glbUrl,     \* useState: object URL of the downloaded GLB blob
  videoUrl,   \* useState: object URL of the selected file
  created,    \* every object URL made by URL.createObjectURL, in order
  revoked,    \* per object URL, how often URL.revokeObjectURL was called on it
  inv,        \* the invocations of handleSubmit that passed the file check
  uploads,    \* number of change events of the file input so far
  lastOp      \* the handler or continuation that ran last

appVars == <<mounted, file, status, error, run, keypoints, glbUrl, videoUrl,
             created, revoked, inv, uploads, lastOp>>

VARIABLES
  pMounted,    \* a HandSkeleton instance is mounted
  frames,      \* prop: the frame array, a reference (id) and its length
  fps,         \* prop: the rate
  frameIdx,    \* useState
  intervalRef, \* useRef: the id setInterval returned last
  timers,      \* the intervals that are set and not cleared
  hasCleanup,  \* the last run of the interval effect returned a cleanup
  pending,     \* effects of the committed render that have not run yet
  renders      \* number of renders with props from the parent so far

playerVars == <<pMounted, frames, fps, frameIdx, intervalRef, timers,
                hasCleanup, pending, renders>>

VARIABLES
  frame,    \* the current frame: the position of each joint, as received
  moved,    \* number of joints displaced from the base pose so far
  bones,    \* the bone descriptors computed from the frame, once computed
  markers   \* the joint markers rendered from the frame, once computed

boneVars == <<frame, moved, bones, markers>>

VARIABLES
  boundary  \* the state of the ModelBoundary instance (fresh when not mounted)

viewVars == <<boundary>>

vars == <<appVars, playerVars, boneVars, viewVars>>

----------------------------------------------------------------------------
\* Remote calls and their responses.

ProcessCall == [kind |-> "process", run |-> 0]
KeypointsCall(data) == [kind |-> "keypoints", run |-> data.keypoints_url]
GlbCall(data) == [kind |-> "glb", run |-> data.glb_url]

\* The body of a successful POST /process for the i-th upload: a fresh run.
RunData(i) == [run_id |-> i, keypoints_url |-> i, glb_url |-> i]

\* The body of a successful keypoints fetch of run i: n frames.
KeypointsData(i, n) == [of |-> i, frames |-> n]

\* What axios rejects with: a transport failure carries no response, a
\* non-2xx response carries a body whose detail field may be absent.
Failures ==
  {[detail |-> None, message |-> NetworkErrorMessage]} \cup
  {[detail |-> d, message |-> StatusErrorMessage] :
      d \in {None, Some(""), Some("corrupt video")}}

\* err?.response?.data?.detail || err.message
ErrorText(err) ==
  IF IsSet(err.detail) /\ err.detail[1] # "" THEN err.detail[1] ELSE err.message

----------------------------------------------------------------------------
\* Object URLs.

Revoke(rev, url) == IF IsSet(url) THEN [rev EXCEPT ![url[1]] = @ + 1] ELSE rev

\* The cleanup returned by the effect, closed over the glbUrl and videoUrl of
\* the render that registered it.
EffectCleanup(rev, g, v) == Revoke(Revoke(rev, g), v)

\* Committing a render: the effect's dependencies [glbUrl, videoUrl] are
\* compared with those of the previous render and on a change the previous
\* cleanup runs.
Commit(rev, oldG, oldV, newG, newV) ==
  IF oldG # newG \/ oldV # newV THEN EffectCleanup(rev, oldG, oldV) ELSE rev

\* A state setter called from a continuation: no effect once unmounted.
Set(cur, new) == IF mounted THEN new ELSE cur

----------------------------------------------------------------------------
\* HandSkeleton: joint markers and bones of one frame.  Coordinates are
\* integers in units of half the length threshold 1e-4, and a length is
\* compared by its square.

NumJoints == 21
Epsilon == 2
Joints == 0..(NumJoints - 1)

BONE_PAIRS ==
  << <<0, 1>>, <<1, 2>>, <<2, 3>>, <<3, 4>>,
     <<0, 5>>, <<5, 6>>, <<6, 7>>, <<7, 8>>,
     <<0, 9>>, <<9, 10>>, <<10, 11>>, <<11, 12>>,
     <<0, 13>>, <<13, 14>>, <<14, 15>>, <<15, 16>>,
     <<0, 17>>, <<17, 18>>, <<18, 19>>, <<19, 20>> >>

Sub(p, q) == <<p[1] - q[1], p[2] - q[2], p[3] - q[3]>>
Add(p, q) == <<p[1] + q[1], p[2] + q[2], p[3] + q[3]>>
LengthSq(d) == d[1] * d[1] + d[2] * d[2] + d[3] * d[3]

\* current.map(([x, y, z]) => [x, -y, z])
Positions(fr) == [j \in Joints |-> <<fr[j][1], -fr[j][2], fr[j][3]>>]

\* Mutant: a bone of exactly the threshold length is skipped too.
TooShortInclusive(d) == LengthSq(d) <= Epsilon * Epsilon

\* length < 1e-4
TooShort(d) == LengthSq(d) < Epsilon * Epsilon

\* The loop over BONE_PAIRS from pair k on, results being what was pushed so
\* far.  A descriptor holds twice the midpoint, the direction the cylinder is
\* turned to and the squared length; pair is the place in BONE_PAIRS it was
\* made from.
RECURSIVE BonesFrom(_, _, _)
BonesFrom(pos, k, results) ==
  IF k > Len(BONE_PAIRS) THEN results
  ELSE LET start == pos[BONE_PAIRS[k][1]]
           end == pos[BONE_PAIRS[k][2]]
           dir == Sub(end, start)
       IN IF TooShort(dir)
            THEN BonesFrom(pos, k + 1, results)
            ELSE BonesFrom(pos, k + 1,
                           Append(results, [pair |-> k,
                                            mid2 |-> Add(start, end),
                                            dir |-> dir,
                                            lengthSq |-> LengthSq(dir)]))

Bones(pos) == BonesFrom(pos, 1, <<>>)

\* positions.map((p, idx) => <mesh position={p}>), the root in its own colour.
Markers(pos) == [idx \in Joints |-> [position |-> pos[idx], root |-> idx = 0]]

\* The base pose: the joints in a row, Spread units apart.
BasePose == [j \in Joints |-> <<Spread * j, 0, 0>>]

\* Where a displaced joint lands relative to the joint it hangs on: on it, off
\* it by less than the threshold, by exactly the threshold, by more.
Offsets == {<<0, 0, 0>>, <<1, 1, 1>>, <<Epsilon, 0, 0>>, <<0, -Epsilon, 1>>}

\* The joint that j hangs on in BONE_PAIRS.
Parent(j) ==
  BONE_PAIRS[CHOOSE k \in DOMAIN BONE_PAIRS : BONE_PAIRS[k][2] = j][1]

NoSolver ==
  /\ frame = BasePose
  /\ moved = 0
  /\ bones = None
  /\ markers = None

\* The keypoint data puts joint j at offset o from the joint it hangs on.
MoveJoint(j, o) ==
  /\ bones = None
  /\ moved < MaxMoved
  /\ moved' = moved + 1
  /\ frame' = [frame EXCEPT ![j] = Add(frame[Parent(j)], o)]
  /\ UNCHANGED <<bones, markers>>

\* HandSkeleton renders the frame.
RenderFrame ==
  /\ bones = None
  /\ bones' = Some(Bones(Positions(frame)))
  /\ markers' = Some(Markers(Positions(frame)))
  /\ UNCHANGED <<frame, moved>>

----------------------------------------------------------------------------
AppInit ==
  /\ mounted = TRUE
  /\ file = None
  /\ status = "idle"
  /\ error = None
  /\ run = None
  /\ keypoints = None
  /\ glbUrl = None
  /\ videoUrl = None
  /\ created = <<>>
  /\ revoked = [h \in Handles |-> 0]
  /\ inv = <<>>
  /\ uploads = 0
  /\ lastOp = "init"

\* No HandSkeleton instance.
NoPlayer ==
  /\ pMounted = FALSE
  /\ frames = None
  /\ fps = None
  /\ frameIdx = 0
  /\ intervalRef = None
  /\ timers = {}
  /\ hasCleanup = FALSE
  /\ pending = [reset |-> FALSE, timer |-> FALSE]
  /\ renders = 0

\* handleUpload: the change event of the file input; selected is
\* event.target.files?.[0], None when the selection was cleared.
HandleUpload(selected) ==
  /\ mounted
  /\ uploads < MaxUploads
  /\ uploads' = uploads + 1
  /\ file' = selected
  /\ error' = None
  /\ LET newUrl == Len(created) + 1
         explicit == Revoke(revoked, videoUrl)
         newV == IF IsSet(selected) THEN Some(newUrl) ELSE videoUrl
     IN /\ videoUrl' = newV
        /\ created' = IF IsSet(selected)
                        THEN Append(created, [kind |-> "video", of |-> 0])
                        ELSE created
        /\ revoked' = Commit(explicit, glbUrl, videoUrl, glbUrl, newV)
  /\ lastOp' = "upload"
  /\ UNCHANGED <<mounted, status, run, keypoints, glbUrl, inv>>

\* Mutant: the button is never disabled.
SubmitAlwaysEnabled == TRUE

\* <button onClick={handleSubmit} disabled={status === "processing"}>
SubmitEnabled == status # "processing"

\* Mutant: the !file branch also moves the status to "error".
HandleSubmitEmptySetsStatus ==
  /\ mounted
  /\ status # "processing"
  /\ ~IsSet(file)
  /\ status' = "error"
  /\ error' = Some(EmptyInputMessage)
  /\ lastOp' = "submitEmpty"
  /\ UNCHANGED <<mounted, file, run, keypoints, glbUrl, videoUrl,
                 created, revoked, inv, uploads>>

\* Mutant: the !file branch lacks its return and falls through to the POST.
HandleSubmitEmptyNoReturn ==
  /\ mounted
  /\ status # "processing"
  /\ ~IsSet(file)
  /\ Len(inv) < MaxSubmits
  /\ status' = "processing"
  /\ error' = None
  /\ inv' = Append(inv, [pc |-> "process", res |-> None,
                         calls |-> <<ProcessCall>>, resps |-> <<>>])
  /\ lastOp' = "submitEmpty"
  /\ UNCHANGED <<mounted, file, run, keypoints, glbUrl, videoUrl, created,
                 revoked, uploads>>

\* handleSubmit, !file branch.
HandleSubmitEmpty ==
  /\ mounted
  /\ SubmitEnabled
  /\ ~IsSet(file)
  /\ error' = Some(EmptyInputMessage)
  /\ lastOp' = "submitEmpty"
  /\ UNCHANGED <<mounted, file, status, run, keypoints, glbUrl, videoUrl,
                 created, revoked, inv, uploads>>

\* handleSubmit up to its first await: axios.post("/process") is issued.
\* Mutant: a submission starts without setting the status.
HandleSubmitKeepsStatus ==
  /\ mounted
  /\ IsSet(file)
  /\ Len(inv) < MaxSubmits
  /\ \A j \in DOMAIN inv : inv[j].pc = "done"
  /\ status' = status
  /\ error' = None
  /\ inv' = Append(inv, [pc |-> "process", res |-> None,
                         calls |-> <<ProcessCall>>, resps |-> <<>>])
  /\ lastOp' = "submit"
  /\ UNCHANGED <<mounted, file, run, keypoints, glbUrl, videoUrl, created,
                 revoked, uploads>>

HandleSubmit ==
  /\ mounted
  /\ SubmitEnabled
  /\ IsSet(file)
  /\ Len(inv) < MaxSubmits
  /\ status' = "processing"
  /\ error' = None
  /\ inv' = Append(inv, [pc |-> "process", res |-> None,
                         calls |-> <<ProcessCall>>, resps |-> <<>>])
  /\ lastOp' = "submit"
  /\ UNCHANGED <<mounted, file, run, keypoints, glbUrl, videoUrl, created,
                 revoked, uploads>>

\* Mutant: the catch block records the failure and leaves the status alone.
CatchKeepsStatus(i, err) ==
  /\ status' = status
  /\ error' = Set(error, Some(ErrorText(err)))
  /\ inv' = [inv EXCEPT ![i].pc = "done",
                        ![i].resps = Append(@, [ok |-> FALSE, err |-> err])]
  /\ lastOp' = "catch"
  /\ UNCHANGED <<mounted, file, run, keypoints, glbUrl, videoUrl, created,
                 revoked, uploads>>

\* Mutant: the catch block reports err.message and ignores the detail.
CatchMessageOnly(i, err) ==
  /\ status' = Set(status, "error")
  /\ error' = Set(error, Some(err.message))
  /\ inv' = [inv EXCEPT ![i].pc = "done",
                        ![i].resps = Append(@, [ok |-> FALSE, err |-> err])]
  /\ lastOp' = "catch"
  /\ UNCHANGED <<mounted, file, run, keypoints, glbUrl, videoUrl, created,
                 revoked, uploads>>

\* The catch block of invocation i, entered with the rejection err.
Catch(i, err) ==
  /\ status' = Set(status, "error")
  /\ error' = Set(error, Some(ErrorText(err)))
  /\ inv' = [inv EXCEPT ![i].pc = "done",
                        ![i].resps = Append(@, [ok |-> FALSE, err |-> err])]
  /\ lastOp' = "catch"
  /\ UNCHANGED <<mounted, file, run, keypoints, glbUrl, videoUrl, created,
                 revoked, uploads>>

\* Mutant: after the POST the GLB is fetched before the keypoints.
ProcessOkGlbFirst(i) ==
  /\ inv[i].pc = "process"
  /\ LET data == RunData(i)
     IN /\ run' = Set(run, Some(data))
        /\ inv' = [inv EXCEPT ![i].pc = "glb",
                              ![i].res = Some(data),
                              ![i].calls = Append(@, GlbCall(data)),
                              ![i].resps = Append(@, [ok |-> TRUE])]
  /\ lastOp' = "processOk"
  /\ UNCHANGED <<mounted, file, status, error, keypoints, glbUrl, videoUrl,
                 created, revoked, uploads>>

\* The POST resolves: setRun, then the keypoints fetch is issued.
ProcessOk(i) ==
  /\ inv[i].pc = "process"
  /\ LET data == RunData(i)
     IN /\ run' = Set(run, Some(data))
        /\ inv' = [inv EXCEPT ![i].pc = "keypoints",
                              ![i].res = Some(data),
                              ![i].calls = Append(@, KeypointsCall(data)),
                              ![i].resps = Append(@, [ok |-> TRUE])]
  /\ lastOp' = "processOk"
  /\ UNCHANGED <<mounted, file, status, error, keypoints, glbUrl, videoUrl,
                 created, revoked, uploads>>

ProcessFail(i, err) ==
  /\ inv[i].pc = "process"
  /\ Catch(i, err)

\* Mutant: setStatus("ready") already follows setKeypoints.
KeypointsOkReady(i, n) ==
  /\ inv[i].pc = "keypoints"
  /\ keypoints' = Set(keypoints, Some(KeypointsData(i, n)))
  /\ status' = Set(status, "ready")
  /\ inv' = [inv EXCEPT ![i].pc = "glb",
                        ![i].calls = Append(@, GlbCall(inv[i].res[1])),
                        ![i].resps = Append(@, [ok |-> TRUE])]
  /\ lastOp' = "keypointsOk"
  /\ UNCHANGED <<mounted, file, error, run, glbUrl, videoUrl, created,
                 revoked, uploads>>

\* The keypoints fetch resolves: setKeypoints, then the GLB fetch is issued.
KeypointsOk(i, n) ==
  /\ inv[i].pc = "keypoints"
  /\ keypoints' = Set(keypoints, Some(KeypointsData(i, n)))
  /\ inv' = [inv EXCEPT ![i].pc = "glb",
                        ![i].calls = Append(@, GlbCall(inv[i].res[1])),
                        ![i].resps = Append(@, [ok |-> TRUE])]
  /\ lastOp' = "keypointsOk"
  /\ UNCHANGED <<mounted, file, status, error, run, glbUrl, videoUrl, created,
                 revoked, uploads>>

KeypointsFail(i, err) ==
  /\ inv[i].pc = "keypoints"
  /\ Catch(i, err)

\* The GLB fetch resolves: createObjectURL, setGlbUrl, setStatus("ready").
GlbOk(i) ==
  /\ inv[i].pc = "glb"
  /\ LET blobUrl == Some(Len(created) + 1)
         newG == Set(glbUrl, blobUrl)
     IN /\ created' = Append(created, [kind |-> "glb", of |-> i])
        /\ glbUrl' = newG
        /\ revoked' = Commit(revoked, glbUrl, videoUrl, newG, videoUrl)
  /\ status' = Set(status, "ready")
  /\ inv' = [inv EXCEPT ![i].pc = "done",
                        ![i].resps = Append(@, [ok |-> TRUE])]
  /\ lastOp' = "glbOk"
  /\ UNCHANGED <<mounted, file, error, run, keypoints, videoUrl, uploads>>

GlbFail(i, err) ==
  /\ inv[i].pc = "glb"
  /\ Catch(i, err)

\* The App unmounts: the cleanup of the last effect runs.
Unmount ==
  /\ mounted
  /\ mounted' = FALSE
  /\ revoked' = EffectCleanup(revoked, glbUrl, videoUrl)
  /\ lastOp' = "unmount"
  /\ UNCHANGED <<file, status, error, run, keypoints, glbUrl, videoUrl,
                 created, inv, uploads>>

----------------------------------------------------------------------------
\* HandViewer and ModelBoundary.

DefaultBoundaryMessage == "GLB load/render failed"

\* What loading or rendering the GLB throws: an error without a message,
\* with an empty one or with a text.
ThrownErrors == {None, Some(""), Some("Could not load GLB")}

\* error?.message || "GLB load/render failed"
BoundaryMessage(e) ==
  IF IsSet(e) /\ e[1] # "" THEN e[1] ELSE DefaultBoundaryMessage

\* ModelBoundary's constructor.
FreshBoundary == [hasError |-> FALSE, message |-> ""]

\* frames && frames.length > 0, with frames = keypoints?.frames
HasFrames == IsSet(keypoints) /\ keypoints[1].frames > 0

\* !glbUrl && !hasFrames
NothingToShow == ~IsSet(glbUrl) /\ ~HasFrames

\* HandViewer renders ModelBoundary unless there is nothing to show.
BoundaryMounted == mounted /\ ~NothingToShow

ViewInit == boundary = FreshBoundary

\* Mutant: the boundary is remounted for every new GLB URL.
ViewResetOnNewUrl ==
  boundary' = IF BoundaryMounted' /\ glbUrl' = glbUrl
                THEN boundary
                ELSE FreshBoundary

\* A render of the App: a mounted ModelBoundary keeps its state, one that is
\* no longer rendered is discarded and the next one starts fresh.
View ==
  boundary' = IF BoundaryMounted' THEN boundary ELSE FreshBoundary

\* Mutant: the failure of the model is reported as the status of the session.
ModelThrowsSetsStatus(e) ==
  /\ BoundaryMounted
  /\ IsSet(glbUrl)
  /\ ~boundary.hasError
  /\ boundary' = [hasError |-> TRUE, message |-> BoundaryMessage(e)]
  /\ status' = "error"
  /\ error' = Some(boundary'.message)
  /\ lastOp' = "modelThrows"
  /\ UNCHANGED <<mounted, file, run, keypoints, glbUrl, videoUrl, created,
                 revoked, inv, uploads>>

\* ModelScene throws while the GLB is loaded or rendered with the error e:
\* getDerivedStateFromError.  ModelScene is rendered only with a glbUrl and
\* only while the boundary has not failed.
ModelThrows(e) ==
  /\ BoundaryMounted
  /\ IsSet(glbUrl)
  /\ ~boundary.hasError
  /\ boundary' = [hasError |-> TRUE, message |-> BoundaryMessage(e)]
  /\ lastOp' = "modelThrows"
  /\ UNCHANGED <<mounted, file, status, error, run, keypoints, glbUrl,
                 videoUrl, created, revoked, inv, uploads>>

\* What HandViewer shows: the placeholder, the scene with the GLB model and
\* the skeleton, or ModelBoundary's fallback with the note and the skeleton.
\* The skeleton draws something only when there are frames.
Scene ==
  IF ~mounted THEN [kind |-> "unmounted"]
  ELSE IF NothingToShow THEN [kind |-> "placeholder"]
  ELSE IF boundary.hasError
    THEN [kind |-> "fallback",
          note |-> <<"GLB failed to load: ", boundary.message>>,
          model |-> FALSE,
          skeleton |-> HasFrames]
    ELSE [kind |-> "scene",
          model |-> IsSet(glbUrl),
          skeleton |-> HasFrames]

Init == AppInit /\ NoPlayer /\ NoSolver /\ ViewInit

Next ==
  \/ \E selected \in {None} \cup {Some(f) : f \in Files} :
        HandleUpload(selected) /\ View /\ UNCHANGED <<playerVars, boneVars>>
  \/ HandleSubmitEmpty /\ View /\ UNCHANGED <<playerVars, boneVars>>
  \/ HandleSubmit /\ View /\ UNCHANGED <<playerVars, boneVars>>
  \/ \E i \in DOMAIN inv :
        ProcessOk(i) /\ View /\ UNCHANGED <<playerVars, boneVars>>
  \/ \E i \in DOMAIN inv, err \in Failures :
        ProcessFail(i, err) /\ View /\ UNCHANGED <<playerVars, boneVars>>
  \/ \E i \in DOMAIN inv, n \in FrameCounts :
        KeypointsOk(i, n) /\ View /\ UNCHANGED <<playerVars, boneVars>>
  \/ \E i \in DOMAIN inv, err \in Failures :
        KeypointsFail(i, err) /\ View /\ UNCHANGED <<playerVars, boneVars>>
  \/ \E i \in DOMAIN inv :
        GlbOk(i) /\ View /\ UNCHANGED <<playerVars, boneVars>>
  \/ \E i \in DOMAIN inv, err \in Failures :
        GlbFail(i, err) /\ View /\ UNCHANGED <<playerVars, boneVars>>
  \/ Unmount /\ View /\ UNCHANGED <<playerVars, boneVars>>
  \/ \E e \in ThrownErrors :
        ModelThrows(e) /\ UNCHANGED <<playerVars, boneVars>>

Spec == Init /\ [][Next]_vars

\* The pending remote call of submission i returns, with success or with a
\* failure, and handleSubmit runs up to its next await.
Returns(i) ==
  /\ i \in DOMAIN inv
  /\ \/ ProcessOk(i)
     \/ \E err \in Failures : ProcessFail(i, err)
     \/ \E n \in FrameCounts : KeypointsOk(i, n)
     \/ \E err \in Failures : KeypointsFail(i, err)
     \/ GlbOk(i)
     \/ \E err \in Failures : GlbFail(i, err)
  /\ View
  /\ UNCHANGED <<playerVars, boneVars>>

\* The App when every remote call eventually returns.
FairSpec == Spec /\ \A i \in 1..MaxSubmits : WF_vars(Returns(i))

----------------------------------------------------------------------------
\* HandSkeleton: the frame player.

DefaultFps == 30
FpsValues == {None, Some(0), Some(24)}

\* !frames || frames.length === 0
NoFrames(f) == ~IsSet(f) \/ f[1].len = 0

\* fps || 30
Rate(r) == IF IsSet(r) /\ r[1] # 0 THEN r[1] ELSE DefaultFps

\* Mutant: the interval is never cleared.
ClearIntervalNoop(ts, ref) == ts

ClearInterval(ts, ref) ==
  IF IsSet(ref) THEN {t \in ts : t.id # ref[1]} ELSE ts

\* The index of the frame shown: frames[frameIdx] || frames[0].
CurrentIndex == IF frameIdx < frames[1].len THEN frameIdx ELSE 0

\* What the instance renders: the positions of the current frame, or nothing
\* (return null) when positions is empty.
ShownFrame ==
  IF pMounted /\ ~NoFrames(frames) THEN Some(CurrentIndex) ELSE None

\* The frame arrays a parent can pass next: the same array again, none, or a
\* new array of up to MaxFrames frames.
NextFrames ==
  {frames, None} \cup
  {Some([id |-> renders + 1, len |-> n]) : n \in 0..MaxFrames}

\* The first render of an instance; its effects have not run yet.
PlayerInit ==
  /\ pMounted = TRUE
  /\ frames \in {None} \cup {Some([id |-> 1, len |-> n]) : n \in 0..MaxFrames}
  /\ fps \in FpsValues
  /\ frameIdx = 0
  /\ intervalRef = None
  /\ timers = {}
  /\ hasCleanup = FALSE
  /\ pending = [reset |-> TRUE, timer |-> TRUE]
  /\ renders = 1

\* The parent renders the instance with props f and r.  The hooks called are
\* the same as in the previous render only if positions is empty in both or
\* in neither (the return before the second useMemo).
Render(f, r) ==
  /\ pMounted
  /\ ~pending.reset /\ ~pending.timer
  /\ renders < MaxRenders
  /\ NoFrames(f) = NoFrames(frames)
  /\ renders' = renders + 1
  /\ frames' = f
  /\ fps' = r
  /\ pending' = [reset |-> f # frames, timer |-> f # frames \/ r # fps]
  /\ UNCHANGED <<pMounted, frameIdx, intervalRef, timers, hasCleanup>>

\* Mutant: the interval effect returns no cleanup.
TeardownNoClear ==
  /\ pMounted' = FALSE
  /\ timers' = timers
  /\ hasCleanup' = FALSE
  /\ pending' = [reset |-> FALSE, timer |-> FALSE]

\* The instance leaves the tree: the cleanup of the interval effect runs.
Teardown ==
  /\ pMounted' = FALSE
  /\ timers' = IF hasCleanup THEN ClearInterval(timers, intervalRef) ELSE timers
  /\ hasCleanup' = FALSE
  /\ pending' = [reset |-> FALSE, timer |-> FALSE]

\* A render whose props make positions empty after a render in which it was
\* not, or the reverse, calls a different number of hooks: React throws and
\* the instance is unmounted.  frames and fps are the props of that render.
RenderHooksMismatch(f, r) ==
  /\ pMounted
  /\ ~pending.reset /\ ~pending.timer
  /\ renders < MaxRenders
  /\ NoFrames(f) # NoFrames(frames)
  /\ renders' = renders + 1
  /\ frames' = f
  /\ fps' = r
  /\ Teardown
  /\ UNCHANGED <<frameIdx, intervalRef>>

\* Mutant: the effect that resets the index on a new frame array is missing.
FlushEffectsNoReset ==
  /\ pMounted
  /\ pending.reset \/ pending.timer
  /\ frameIdx' = frameIdx
  /\ LET cleaned == IF pending.timer /\ hasCleanup
                      THEN ClearInterval(timers, intervalRef)
                      ELSE timers
         id == IF IsSet(intervalRef) THEN intervalRef[1] + 1 ELSE 1
     IN IF ~pending.timer
          THEN UNCHANGED <<intervalRef, timers, hasCleanup>>
          ELSE IF NoFrames(frames)
            THEN /\ timers' = cleaned
                 /\ hasCleanup' = FALSE
                 /\ UNCHANGED intervalRef
            ELSE /\ timers' = ClearInterval(cleaned, intervalRef) \cup
                                {[id |-> id, len |-> frames[1].len,
                                  rate |-> Rate(fps)]}
                 /\ intervalRef' = Some(id)
                 /\ hasCleanup' = TRUE
  /\ pending' = [reset |-> FALSE, timer |-> FALSE]
  /\ UNCHANGED <<pMounted, frames, fps, renders>>

\* The effects of the committed render run: the cleanup of the previous
\* interval effect, then setFrameIdx(0), then the interval effect.
FlushEffects ==
  /\ pMounted
  /\ pending.reset \/ pending.timer
  /\ frameIdx' = IF pending.reset THEN 0 ELSE frameIdx
  /\ LET cleaned == IF pending.timer /\ hasCleanup
                      THEN ClearInterval(timers, intervalRef)
                      ELSE timers
         id == IF IsSet(intervalRef) THEN intervalRef[1] + 1 ELSE 1
     IN IF ~pending.timer
          THEN UNCHANGED <<intervalRef, timers, hasCleanup>>
          ELSE IF NoFrames(frames)
            THEN /\ timers' = cleaned
                 /\ hasCleanup' = FALSE
                 /\ UNCHANGED intervalRef
            ELSE /\ timers' = ClearInterval(cleaned, intervalRef) \cup
                                {[id |-> id, len |-> frames[1].len,
                                  rate |-> Rate(fps)]}
                 /\ intervalRef' = Some(id)
                 /\ hasCleanup' = TRUE
  /\ pending' = [reset |-> FALSE, timer |-> FALSE]
  /\ UNCHANGED <<pMounted, frames, fps, renders>>

\* Mutant: the updater lacks the modulo.
TickNoWrap(t) ==
  /\ t \in timers
  /\ frameIdx' = IF pMounted /\ ~pending.reset THEN frameIdx + 1 ELSE frameIdx
  /\ UNCHANGED <<pMounted, frames, fps, intervalRef, timers, hasCleanup,
                 pending, renders>>

\* The interval t fires: setFrameIdx((i) => (i + 1) % frames.length), with the
\* frames of the render that set the interval.  While the index reset of a
\* committed render is pending, the update is queued before the reset's
\* setFrameIdx(0): the pending effects run before the next render, which
\* then yields 0.
Tick(t) ==
  /\ t \in timers
  /\ frameIdx' = IF pMounted /\ ~pending.reset
                   THEN (frameIdx + 1) % t.len
                   ELSE frameIdx
  /\ UNCHANGED <<pMounted, frames, fps, intervalRef, timers, hasCleanup,
                 pending, renders>>

\* The parent stops rendering the instance.
PlayerUnmount ==
  /\ pMounted
  /\ ~pending.reset /\ ~pending.timer
  /\ Teardown
  /\ UNCHANGED <<frames, fps, frameIdx, intervalRef, renders>>

PInit == AppInit /\ PlayerInit /\ NoSolver /\ ViewInit

PNext ==
  \/ \E f \in NextFrames, r \in FpsValues : Render(f, r) /\ UNCHANGED <<appVars, boneVars, viewVars>>
  \/ \E f \in NextFrames, r \in FpsValues :
        RenderHooksMismatch(f, r) /\ UNCHANGED <<appVars, boneVars, viewVars>>
  \/ FlushEffects /\ UNCHANGED <<appVars, boneVars, viewVars>>
  \/ \E t \in timers : Tick(t) /\ UNCHANGED <<appVars, boneVars, viewVars>>
  \/ PlayerUnmount /\ UNCHANGED <<appVars, boneVars, viewVars>>

PlayerSpec == PInit /\ [][PNext]_vars

----------------------------------------------------------------------------
\* The specification of the bone solver.

BInit == AppInit /\ NoPlayer /\ NoSolver /\ ViewInit

BNext ==
  \/ \E j \in Joints \ {0}, o \in Offsets :
        MoveJoint(j, o) /\ UNCHANGED <<appVars, playerVars, viewVars>>
  \/ RenderFrame /\ UNCHANGED <<appVars, playerVars, viewVars>>

BoneSpec == BInit /\ [][BNext]_vars

----------------------------------------------------------------------------
\* Properties of the run pipeline and the upload session.

InFlight == {i \in DOMAIN inv : inv[i].pc # "done"}
LastResp(i) == inv[i].resps[Len(inv[i].resps)]
Failed(i) == inv[i].pc = "done" /\ ~LastResp(i).ok
Succeeded(i) == inv[i].pc = "done" /\ LastResp(i).ok
CallOrder == <<"process", "keypoints", "glb">>

\* C1: the status enters "ready" or "error" only from "processing", and once
\* a submission has started the status is never "idle" again.
StatusTransitions ==
  [][ /\ (status' # status /\ status' \in {"ready", "error"}
            => status = "processing")
      /\ (status # "idle" => status' # "idle")
      /\ (Len(inv') > 0 => status' # "idle") ]_vars

\* C1 witness: a submission that ended "ready" was followed by one that ended
\* "error".
StatusTransitionsWitness ==
  /\ mounted
  /\ Len(inv) = 2
  /\ Succeeded(1)
  /\ Failed(2)
  /\ status = "error"

\* C2: the calls of one submission are issued in the order process, keypoints,
\* glb; each call but the first is issued only after the one before it has
\* succeeded; at most one call is outstanding; after a failure no call follows.
StrictlySequential ==
  \A i \in DOMAIN inv :
    LET c == inv[i].calls
        r == inv[i].resps
    IN /\ Len(c) <= Len(CallOrder)
       /\ \A k \in 1..Len(c) : c[k].kind = CallOrder[k]
       /\ \A k \in 2..Len(c) : Len(r) >= k - 1 /\ r[k - 1].ok
       /\ \A k \in 2..Len(c) : c[k].run = inv[i].res[1].run_id
       /\ Len(c) - Len(r) \in {0, 1}
       /\ \A k \in 1..Len(r) : ~r[k].ok => Len(c) = k /\ inv[i].pc = "done"

\* C2 witness: one submission stopped at its failed keypoints fetch, the next
\* one issued all three calls.
StrictlySequentialWitness ==
  /\ Len(inv) = 2
  /\ Failed(1)
  /\ Len(inv[1].calls) = 2
  /\ Succeeded(2)
  /\ Len(inv[2].calls) = 3

\* C3: status "ready" implies a Run, a frame sequence and a GLB handle are
\* held, and the continuation of the third successful call sets "ready".
ReadyHoldsAll ==
  /\ status = "ready" => IsSet(run) /\ IsSet(keypoints) /\ IsSet(glbUrl)
  /\ mounted /\ lastOp = "glbOk" => status = "ready"

\* C3 witness: the third call of a submission has just succeeded.
ReadyHoldsAllWitness ==
  /\ mounted
  /\ lastOp = "glbOk"
  /\ status = "ready"
  /\ IsSet(run) /\ IsSet(keypoints) /\ IsSet(glbUrl)

\* The message the session shows for a rejection, as C4 states it: the detail
\* whenever the response carries one.
DetailWhenPresent(err) ==
  IF IsSet(err.detail) THEN err.detail[1] ELSE err.message

\* The same with the amendment: the detail when it is a non-empty string.
DetailWhenNonEmpty(err) ==
  IF IsSet(err.detail) /\ err.detail[1] # "" THEN err.detail[1] ELSE err.message

EmptySubmitKeepsStatus ==
  [][ lastOp' = "submitEmpty" => status' = status /\ inv' = inv ]_vars

\* C5 witness: a submit with no file selected while the status was "ready".
EmptySubmitWitness ==
  /\ lastOp = "submitEmpty"
  /\ status = "ready"
  /\ ~IsSet(file)
  /\ InFlight = {}

\* C6: after a submission failed, the session holds neither the Run nor the
\* frame sequence that submission produced.
AllOrNothing ==
  \A i \in DOMAIN inv :
    Failed(i) =>
      /\ ~(IsSet(run) /\ run[1].run_id = i)
      /\ ~(IsSet(keypoints) /\ keypoints[1].of = i)

\* C7: at most one submission is between its first call and its final status
\* update, and while one is the status is "processing" (the button is
\* disabled).
OneInFlight ==
  /\ Cardinality(InFlight) <= 1
  /\ mounted /\ InFlight # {} => status = "processing"

\* C7 witness: a second submission is in flight after the first one completed,
\* with a file selected.
OneInFlightWitness ==
  /\ mounted
  /\ IsSet(file)
  /\ Len(inv) = 2
  /\ inv[1].pc = "done"
  /\ inv[2].pc = "keypoints"

\* C8: no object URL is revoked more than once.
ReleasedAtMostOnce == \A h \in Handles : revoked[h] <= 1

\* C9: once the App is unmounted every object URL ever created has been
\* revoked.
TeardownReleasesAll ==
  ~mounted => \A h \in 1..Len(created) : revoked[h] >= 1

\* C15 as stated: while the App is mounted neither the current videoUrl nor
\* the current glbUrl has been revoked.
CurrentHandlesUnreleased ==
  mounted =>
    /\ (IsSet(videoUrl) => revoked[videoUrl[1]] = 0)
    /\ (IsSet(glbUrl) => revoked[glbUrl[1]] = 0)

\* The latest submission that has run to its end.
LatestDone(i) ==
  /\ i \in DOMAIN inv
  /\ inv[i].pc = "done"
  /\ \A j \in DOMAIN inv : inv[j].pc = "done" => j <= i

\* C17: whenever the status is "ready", the run, the keypoints and the GLB
\* behind glbUrl all come from one submission, the latest one that has run to
\* its end.
ReadyFromOneSubmission ==
  status = "ready" =>
    \E i \in DOMAIN inv :
      /\ LatestDone(i)
      /\ IsSet(run) /\ run[1].run_id = i
      /\ IsSet(keypoints) /\ keypoints[1].of = i
      /\ IsSet(glbUrl) /\ created[glbUrl[1]] = [kind |-> "glb", of |-> i]

\* C17 witness: a second submission reached "ready" after a first one did,
\* and everything held comes from the second.
ReadyFromOneSubmissionWitness ==
  /\ mounted
  /\ status = "ready"
  /\ Len(inv) = 2
  /\ Succeeded(1)
  /\ run[1].run_id = 2
  /\ created[glbUrl[1]].of = 2

\* C18: when every remote call eventually returns, every submission runs to
\* the setStatus("ready") or setStatus("error") that ends it, and a mounted
\* App whose status is "processing" gets the status "ready" or "error" (or is
\* unmounted, after which there is no status to show).
ProcessingEnds ==
  /\ (InFlight # {}) ~> (InFlight = {})
  /\ (mounted /\ status = "processing")
       ~> (~mounted \/ status \in {"ready", "error"})

\* C18 witness: the App is still mounted, two submissions have run to their
\* end, the first to "error" and the second to "ready".
ProcessingEndsWitness ==
  /\ mounted
  /\ Len(inv) = 2
  /\ Failed(1)
  /\ Succeeded(2)
  /\ status = "ready"
  /\ error = None

\* C13: when ModelBoundary catches what ModelScene throws, the file, status,
\* error, run, keypoints and object URLs of the App are unchanged, and
\* HandViewer shows the fallback: the note with the message, no model, and
\* the skeleton exactly when there are frames.
BoundaryContainsFailure ==
  [][ ~boundary.hasError /\ boundary'.hasError =>
        /\ UNCHANGED <<mounted, file, status, error, run, keypoints, glbUrl,
                       videoUrl, created, revoked>>
        /\ Scene'.kind = "fallback"
        /\ Scene'.note = <<"GLB failed to load: ", boundary'.message>>
        /\ boundary'.message # ""
        /\ ~Scene'.model
        /\ Scene'.skeleton = HasFrames ]_vars

\* C13 witness: the model of a "ready" result with frames threw an error
\* without a message, and the fallback shows the skeleton.
BoundaryContainsFailureWitness ==
  /\ mounted
  /\ status = "ready"
  /\ lastOp = "modelThrows"
  /\ boundary.hasError
  /\ boundary.message = DefaultBoundaryMessage
  /\ HasFrames
  /\ Scene.kind = "fallback"
  /\ Scene.skeleton

\* C19: a ModelBoundary that has caught an error stays failed for as long as
\* it is rendered, a new keypoints or a new glbUrl included, and HandViewer
\* keeps showing the fallback with the note and without the model.
BoundaryStaysFailed ==
  [][ boundary.hasError /\ BoundaryMounted' =>
        /\ boundary'.hasError
        /\ boundary'.message = boundary.message
        /\ Scene'.kind = "fallback"
        /\ ~Scene'.model ]_vars

\* C19 witness: after the boundary failed on one GLB, a later submission
\* reached "ready" with a new glbUrl, and the fallback is still shown.
BoundaryStaysFailedWitness ==
  /\ mounted
  /\ status = "ready"
  /\ boundary.hasError
  /\ lastOp = "glbOk"
  /\ IsSet(glbUrl)
  /\ created[glbUrl[1]].of = 2
  /\ Scene.kind = "fallback"

----------------------------------------------------------------------------
\* Properties of the frame player.

\* C10 as stated: with a non-empty frame array the index is within
\* 0..N-1 in every state, the states between the replacement of the array
\* and the index reset included.
IndexInRange ==
  pMounted /\ ~NoFrames(frames) =>
    0 <= frameIdx /\ frameIdx <= frames[1].len - 1

\* C10 amended: with a non-empty frame array the index is never negative, it
\* is within 0..N-1 whenever no index reset is pending, and the index of the
\* frame shown is within 0..N-1 in every state.
IndexInRangeOnceReset ==
  pMounted /\ ~NoFrames(frames) =>
    /\ 0 <= frameIdx
    /\ ~pending.reset => frameIdx <= frames[1].len - 1
    /\ CurrentIndex \in 0..(frames[1].len - 1)

\* C10 witness: the array was replaced by a shorter one and the index reset
\* has not run yet; the first frame is shown.
IndexInRangeWitness ==
  /\ pMounted
  /\ ~NoFrames(frames)
  /\ pending.reset
  /\ frameIdx > frames[1].len - 1
  /\ CurrentIndex = 0

\* C11: once the effects of a render with a new frame array of length N > 0
\* have run the index is 0, and every tick after that moves the index from i
\* to (i + 1) mod N; while the array is shown a timer for it is set, so the
\* ticks go on.
ResetThenCycle ==
  /\ [][ pending.reset /\ ~pending'.reset /\ pMounted' => frameIdx' = 0 ]_vars
  /\ [][ /\ pMounted /\ pMounted'
         /\ pending' = pending
         /\ renders' = renders
         /\ frameIdx' # frameIdx
         => /\ ~NoFrames(frames)
            /\ frameIdx' = (frameIdx + 1) % frames[1].len
            /\ frameIdx' = CurrentIndex' ]_vars
  /\ [](pMounted /\ ~NoFrames(frames) /\ ~pending.timer
          => \E t \in timers : t.len = frames[1].len)

\* C11 witness: a second frame array of two frames was loaded, the index was
\* reset and a tick has moved it to the last frame.
ResetThenCycleWitness ==
  /\ pMounted
  /\ IsSet(frames)
  /\ frames[1].id > 1
  /\ frames[1].len = MaxFrames
  /\ ~pending.reset /\ ~pending.timer
  /\ frameIdx = MaxFrames - 1
  /\ timers # {}

\* C12: whenever the frame array is empty or absent no interval is set and
\* no frame is shown, also after a non-empty array whose interval was running
\* has been replaced by an empty one.
NoTimerWithoutFrames ==
  NoFrames(frames) => timers = {} /\ ShownFrame = None

\* C12 witness: an interval had been set for a non-empty array and the props
\* now carry an empty one.
NoTimerWithoutFramesWitness ==
  /\ NoFrames(frames)
  /\ IsSet(intervalRef)
  /\ timers = {}
  /\ ShownFrame = None

\* C16: at most one interval is set at any time, it is the one intervalRef
\* names, and none is left once the instance is unmounted.
AtMostOneTimer ==
  /\ Cardinality(timers) <= 1
  /\ \A t \in timers : intervalRef = Some(t.id)
  /\ ~pMounted => timers = {}

\* C16 witness: after a change of the rate alone the interval of the first
\* render has been replaced by a second one.
AtMostOneTimerWitness ==
  /\ pMounted
  /\ IsSet(frames)
  /\ frames[1].id = 1
  /\ \E t \in timers : t.id = 2 /\ t.rate # DefaultFps
  /\ Cardinality(timers) = 1

----------------------------------------------------------------------------
\* Properties of the bone solver.

\* The pairs of BONE_PAIRS whose joints are at least the threshold apart in
\* the frame as received.
LongPairs ==
  {k \in DOMAIN BONE_PAIRS :
     LengthSq(Sub(frame[BONE_PAIRS[k][2]], frame[BONE_PAIRS[k][1]]))
       >= Epsilon * Epsilon}

\* C14: the bones rendered from a frame are one per pair of BONE_PAIRS whose
\* joints are at least the threshold apart and none for the other pairs, in
\* the order of BONE_PAIRS, and all 21 joint markers are rendered.
BonesMatchLongPairs ==
  IsSet(bones) =>
    /\ {bones[1][i].pair : i \in DOMAIN bones[1]} = LongPairs
    /\ Len(bones[1]) = Len(BONE_PAIRS) - Cardinality(DOMAIN BONE_PAIRS \ LongPairs)
    /\ \A i, j \in DOMAIN bones[1] : i < j => bones[1][i].pair < bones[1][j].pair
    /\ IsSet(markers)
    /\ DOMAIN markers[1] = Joints
    /\ Cardinality(DOMAIN markers[1]) = NumJoints

\* C14 witness: a rendered frame with one pair on the same spot, which has no
\* bone, and one exactly the threshold apart, which has one.
BonesMatchLongPairsWitness ==
  /\ IsSet(bones)
  /\ Len(bones[1]) = Len(BONE_PAIRS) - 1
  /\ \E k \in DOMAIN BONE_PAIRS :
       /\ frame[BONE_PAIRS[k][1]] = frame[BONE_PAIRS[k][2]]
       /\ k \notin LongPairs
  /\ \E i \in DOMAIN bones[1] : bones[1][i].lengthSq = Epsilon * Epsilon

====
